---- MODULE Spec2Model ----
(***************************************************************************)
(* Model of prapti's command interpreter                                   *)
(* (prapti/core/command_interpreter.py): command parsing, the exclamation  *)
(* timing gate, action dispatch, configuration assignment and the          *)
(* interpretation pass over a message sequence.                            *)
(*                                                                         *)
(* Command text is a sequence of one-character strings, so that the        *)
(* command regex is modelled by what it matches, character by character.   *)
(***************************************************************************)
EXTENDS Integers, Sequences, FiniteSets, TLC

VARIABLES
    message_sequence,   \* ExecutionState.message_sequence: the parsed document
    root_config,        \* ExecutionState.root_config
    actions,            \* private core state: the action registry
    log,                \* ExecutionState.log: diagnostics reported so far
    trace,              \* lookups, action invocations, assign_field calls and returns so far
    flags,              \* is_final_sequence of each interpret_commands call so far
    raised,             \* fault that escaped the latest call ("none" if it returned)
    entry,              \* what the call that has just returned started from
    fresh,              \* TRUE in the state a call returns to, until the next step
    test_exfil,         \* ExecutionState.test_exfil: the responder's resolved configuration
    config_root         \* the latest call of is_config_root and what it returned

vars == <<message_sequence, root_config, actions, log, trace, flags, raised, entry, fresh,
          test_exfil, config_root>>

\* number of interpret_commands calls made so far
passes == Len(flags)

----------------------------------------------------------------------------
(* Bounds of the model *)

MaxMessages == 2
MaxItems == 2
MaxPasses == 2

----------------------------------------------------------------------------
(* Characters *)

WhitespaceChars == {" ", "\t"}
Digits == {"1", "2", "5"}
WordChars == {"n", "t", "x", "a", "e", "d", "u", "p", "q", "h", "z",
              "c", "o", "f", "i", "g", "r", "l", "s"} \cup Digits
NameChars == WordChars \cup {"-", "_", ".", "/", "\\"}

DigitValue(c) == CASE c = "1" -> 1 [] c = "2" -> 2 [] c = "5" -> 5 [] OTHER -> 0

SubSeqFrom(t, i) == IF i > Len(t) THEN <<>> ELSE SubSeq(t, i, Len(t))

RECURSIVE SkipWhitespace(_, _)
SkipWhitespace(t, i) ==
    IF i <= Len(t) /\ t[i] \in WhitespaceChars THEN SkipWhitespace(t, i + 1) ELSE i

\* the name taken as everything up to whitespace or "="
RECURSIVE SkipNameAny(_, _)
SkipNameAny(t, i) ==
    IF i <= Len(t) /\ t[i] \notin WhitespaceChars \cup {"="}
    THEN SkipNameAny(t, i + 1) ELSE i

RECURSIVE SkipName(_, _)
SkipName(t, i) ==
    IF i <= Len(t) /\ t[i] \in NameChars THEN SkipName(t, i + 1) ELSE i

RECURSIVE LastNonWhitespace(_, _)
LastNonWhitespace(t, j) ==
    IF j >= 1 /\ t[j] \in WhitespaceChars THEN LastNonWhitespace(t, j - 1) ELSE j

\* the right-hand side left as written
StripNothing(t) == t

\* str.lstrip(): trailing whitespace kept
StripLeading(t) == SubSeqFrom(t, SkipWhitespace(t, 1))

\* str.strip()
Strip(t) ==
    LET i == SkipWhitespace(t, 1)
        j == LastNonWhitespace(t, Len(t))
    IN IF i > j THEN <<>> ELSE SubSeq(t, i, j)

----------------------------------------------------------------------------
(* Command syntax *)

NoMatch == [matched |-> FALSE, has_exclamation |-> FALSE, name |-> <<>>,
            equals_sign |-> FALSE, rest |-> <<>>]

\* re.match(command_regex, command_text)
\*   ^(!)?\s*([\w\-_./\\]+)(?:\s*(=)|\s+|$)(.*)
\* A command is one line: no text holds a newline, which "." and "$" treat apart.
MatchCommand(t) ==
    LET excl == Len(t) >= 1 /\ t[1] = "!"
        i0 == IF excl THEN 2 ELSE 1
        i1 == SkipWhitespace(t, i0)
        i2 == SkipName(t, i1)
        i3 == SkipWhitespace(t, i2)
    IN IF i2 = i1 THEN NoMatch
       ELSE IF i3 <= Len(t) /\ t[i3] = "="
       THEN [matched |-> TRUE, has_exclamation |-> excl, name |-> SubSeq(t, i1, i2 - 1),
             equals_sign |-> TRUE, rest |-> SubSeqFrom(t, i3 + 1)]
       ELSE IF i3 > i2 \/ i2 > Len(t)
       THEN [matched |-> TRUE, has_exclamation |-> excl, name |-> SubSeq(t, i1, i2 - 1),
             equals_sign |-> FALSE, rest |-> SubSeqFrom(t, i3)]
       ELSE NoMatch

----------------------------------------------------------------------------
(* Configuration tree *)

FieldN == <<"n">>
FieldT == <<"t">>
FieldNames == {FieldN, FieldT}

\* n defaults to 0, t to 12
DefaultConfiguration ==
    [f \in FieldNames |-> [value |-> IF f = FieldN THEN 0 ELSE 12, explicit |-> FALSE]]

IsIntegerText(rhs) == Len(rhs) > 0 /\ \A k \in 1..Len(rhs) : rhs[k] \in Digits

RECURSIVE ConvertInteger(_)
ConvertInteger(rhs) ==
    IF Len(rhs) = 0 THEN 0
    ELSE 10 * ConvertInteger(SubSeq(rhs, 1, Len(rhs) - 1)) + DigitValue(rhs[Len(rhs)])

\* a value that does not convert resets the field
AssignFieldResetting(config, name, rhs) ==
    IF name \notin FieldNames
    THEN [root_config |-> config, code |-> "field-not-found"]
    ELSE IF ~IsIntegerText(rhs)
    THEN [root_config |-> [config EXCEPT ![name] = [value |-> 0, explicit |-> FALSE]],
          code |-> "type-conversion-failure"]
    ELSE [root_config |-> [config EXCEPT ![name] =
                              [value |-> ConvertInteger(rhs), explicit |-> TRUE]],
          code |-> "ok"]

\* assign_field(root_config, name, rhs, source_loc, log): the configuration after
\* the call and the diagnostic it reports ("ok" when it reports none)
AssignField(config, name, rhs) ==
    IF name \notin FieldNames
    THEN [root_config |-> config, code |-> "field-not-found"]
    ELSE IF ~IsIntegerText(rhs)
    THEN [root_config |-> config, code |-> "type-conversion-failure"]
    ELSE [root_config |-> [config EXCEPT ![name] =
                              [value |-> ConvertInteger(rhs), explicit |-> TRUE]],
          code |-> "ok"]

----------------------------------------------------------------------------
(* Action registry *)

Dot == <<".">>

Action(ns, name, excl_only, returns) ==
    [qualified_name |-> ns \o Dot \o name, name |-> name,
     exclamation_only |-> excl_only, returns |-> returns]

\* actions registered by the plugin loaded at start-up
PluginP == { Action(<<"p">>, <<"a">>, FALSE, "value"),
             Action(<<"p">>, <<"e">>, TRUE, "message"),
             Action(<<"p">>, <<"d">>, FALSE, "none") }

\* actions registered by a plugin loaded later
PluginQ == { Action(<<"q">>, <<"d">>, FALSE, "value") }

\* only fully qualified names resolve
LookupActionQualified(registry, action_name) ==
    {a \in registry : a.qualified_name = action_name}

\* core_state.actions.lookup_action(action_name)
LookupAction(registry, action_name) ==
    {a \in registry : a.qualified_name = action_name \/ a.name = action_name}

NoneResult == [kind |-> "none", value |-> <<>>]

\* action.function(action_name, raw_args, context)
ActionFunction(action, action_name, raw_args) ==
    IF action.returns = "none" THEN NoneResult
    ELSE [kind |-> action.returns, value |-> raw_args]

----------------------------------------------------------------------------
(* Interpreter *)

\* state.log.error(code, message, source_loc)
LogError(st, code, loc, pass) ==
    [st EXCEPT !.log = Append(@, [code |-> code, loc |-> loc, pass |-> pass])]

Event(kind, pass, loc, name, args, has_exclamation, config) ==
    [kind |-> kind, pass |-> pass, loc |-> loc, name |-> name, args |-> args,
     has_exclamation |-> has_exclamation, root_config |-> config]

Record(st, kind, pass, loc, name, args, has_exclamation) ==
    [st EXCEPT !.trace =
        Append(@, Event(kind, pass, loc, name, args, has_exclamation, st.root_config))]

\* the refusal left out
ExclamationRefusedNever(action, has_exclamation) == FALSE

ExclamationRefused(action, has_exclamation) ==
    action.exclamation_only /\ ~has_exclamation

\* more than one match taken as a match
MatchCaseFirstWins(matches) ==
    IF Cardinality(matches) = 0 THEN 0 ELSE 1

\* match len(matches): case 0, case 1, case _ (2)
MatchCase(matches) ==
    IF Cardinality(matches) = 0 THEN 0 ELSE IF Cardinality(matches) = 1 THEN 1 ELSE 2

\* run_action(has_exclamation, action_name, raw_args, source_loc, state)
RunAction(has_exclamation, action_name, raw_args, loc, pass, st) ==
    LET matches == LookupAction(st.actions, action_name)
        st1 == Record(st, "lookup", pass, loc, action_name, raw_args, has_exclamation)
    IN IF MatchCase(matches) = 0
       THEN [result |-> NoneResult, st |-> LogError(st1, "action-not-found", loc, pass)]
       ELSE IF MatchCase(matches) = 1
       THEN LET action == CHOOSE a \in matches : TRUE
            IN IF ExclamationRefused(action, has_exclamation)
               THEN [result |-> NoneResult,
                     st |-> LogError(st1, "excl-only-action-without-excl", loc, pass)]
               ELSE [result |-> ActionFunction(action, action_name, raw_args),
                     st |-> Record(st1, "call", pass, loc, action_name, raw_args,
                                   has_exclamation)]
       ELSE [result |-> NoneResult,
             st |-> LogError(st1, "ambiguous-action-name", loc, pass)]

\* the gate left open
GateOpenAlways(has_exclamation, is_final_message) == TRUE

\* the gate applied to every command
GateOpenFinalOnly(has_exclamation, is_final_message) == is_final_message

\* only commands written with "!" pass the gate
GateOpenExclamationOnly(has_exclamation, is_final_message) ==
    has_exclamation /\ is_final_message

\* the condition of the exclamation timing gate
GateOpen(has_exclamation, is_final_message) ==
    ~has_exclamation \/ (has_exclamation /\ is_final_message)

\* _interpret_command(command_text, is_final_message, source_loc, state)
InterpretCommand(command_text, is_final_message, loc, pass, st) ==
    LET match == MatchCommand(command_text)
        rhs == Strip(match.rest)
    IN IF match.matched
       THEN IF GateOpen(match.has_exclamation, is_final_message)
            THEN IF match.equals_sign
                 THEN IF Len(rhs) = 0
                      THEN [result |-> NoneResult,
                            st |-> LogError(st, "skiping-empty-assignment", loc, pass)]
                      ELSE LET st1 == Record(st, "assign", pass, loc, match.name, rhs,
                                             match.has_exclamation)
                               out == AssignField(st1.root_config, match.name, rhs)
                               st2 == Record([st1 EXCEPT !.root_config = out.root_config],
                                             "assigned", pass, loc, match.name, rhs,
                                             match.has_exclamation)
                           IN [result |-> NoneResult,
                               st |-> IF out.code = "ok" THEN st2
                                      ELSE LogError(st2, out.code, loc, pass)]
                 ELSE RunAction(match.has_exclamation, match.name, rhs, loc, pass, st)
            ELSE [result |-> NoneResult, st |-> st]
       ELSE [result |-> NoneResult, st |-> LogError(st, "unknown-command", loc, pass)]

\* message_sequence[0] taken as the final message
FinalMessageFirst(seq, is_final_sequence) ==
    IF is_final_sequence THEN 1 ELSE 0

\* the last enabled message taken as the final message
FinalMessageLastEnabled(seq, is_final_sequence) ==
    IF is_final_sequence /\ \E m \in 1..Len(seq) : seq[m].is_enabled
    THEN CHOOSE m \in 1..Len(seq) :
            seq[m].is_enabled /\ \A k \in (m + 1)..Len(seq) : ~seq[k].is_enabled
    ELSE 0

\* final_message = message_sequence[-1] if is_final_sequence else None,
\* as the index of that message (0: there is none)
FinalMessage(seq, is_final_sequence) ==
    IF is_final_sequence THEN Len(seq) ELSE 0

\* disabled commands visited as well
IsVisitedAny(item) == item.kind = "command"

\* isinstance(item, Command) and item.is_enabled
IsVisited(item) == item.kind = "command" /\ item.is_enabled

\* the items of a message visited last to first
RECURSIVE InterpretFromReversed(_, _, _, _, _, _)
InterpretFromReversed(seq, m, i, final_message, pass, st) ==
    IF m > Len(seq) THEN [seq |-> seq, st |-> st]
    ELSE IF ~seq[m].is_enabled \/ i > Len(seq[m].content)
    THEN InterpretFromReversed(seq, m + 1, 1, final_message, pass, st)
    ELSE LET j == Len(seq[m].content) + 1 - i
         IN IF IsVisited(seq[m].content[j])
            THEN LET item == seq[m].content[j]
                     out == InterpretCommand(item.text, m = final_message, <<m, j>>,
                                             pass, st)
                     written == [item EXCEPT !.result = out.result, !.writes = @ + 1]
                 IN InterpretFromReversed([seq EXCEPT ![m].content[j] = written], m,
                                          i + 1, final_message, pass, out.st)
            ELSE InterpretFromReversed(seq, m, i + 1, final_message, pass, st)

\* the pass abandoned at the first command that reports a diagnostic
RECURSIVE InterpretFromStopping(_, _, _, _, _, _)
InterpretFromStopping(seq, m, i, final_message, pass, st) ==
    IF m > Len(seq) THEN [seq |-> seq, st |-> st]
    ELSE IF ~seq[m].is_enabled \/ i > Len(seq[m].content)
    THEN InterpretFromStopping(seq, m + 1, 1, final_message, pass, st)
    ELSE IF IsVisited(seq[m].content[i])
    THEN LET item == seq[m].content[i]
             out == InterpretCommand(item.text, m = final_message, <<m, i>>, pass, st)
             written == [item EXCEPT !.result = out.result, !.writes = @ + 1]
         IN IF Len(out.st.log) > Len(st.log)
            THEN [seq |-> [seq EXCEPT ![m].content[i] = written], st |-> out.st]
            ELSE InterpretFromStopping([seq EXCEPT ![m].content[i] = written], m, i + 1,
                                       final_message, pass, out.st)
    ELSE InterpretFromStopping(seq, m, i + 1, final_message, pass, st)

\* a command whose result was written by an earlier pass is passed over
RECURSIVE InterpretFromOnce(_, _, _, _, _, _)
InterpretFromOnce(seq, m, i, final_message, pass, st) ==
    IF m > Len(seq) THEN [seq |-> seq, st |-> st]
    ELSE IF ~seq[m].is_enabled \/ i > Len(seq[m].content)
    THEN InterpretFromOnce(seq, m + 1, 1, final_message, pass, st)
    ELSE IF IsVisited(seq[m].content[i]) /\ seq[m].content[i].writes = 0
    THEN LET item == seq[m].content[i]
             out == InterpretCommand(item.text, m = final_message, <<m, i>>, pass, st)
             written == [item EXCEPT !.result = out.result, !.writes = @ + 1]
         IN InterpretFromOnce([seq EXCEPT ![m].content[i] = written], m, i + 1,
                              final_message, pass, out.st)
    ELSE InterpretFromOnce(seq, m, i + 1, final_message, pass, st)

\* the loops of interpret_commands, from item i of message m onwards
RECURSIVE InterpretFrom(_, _, _, _, _, _)
InterpretFrom(seq, m, i, final_message, pass, st) ==
    IF m > Len(seq) THEN [seq |-> seq, st |-> st]
    ELSE IF ~seq[m].is_enabled \/ i > Len(seq[m].content)
    THEN InterpretFrom(seq, m + 1, 1, final_message, pass, st)
    ELSE IF IsVisited(seq[m].content[i])
    THEN LET item == seq[m].content[i]
             out == InterpretCommand(item.text, m = final_message, <<m, i>>, pass, st)
             written == [item EXCEPT !.result = out.result, !.writes = @ + 1]
         IN InterpretFrom([seq EXCEPT ![m].content[i] = written], m, i + 1,
                          final_message, pass, out.st)
    ELSE InterpretFrom(seq, m, i + 1, final_message, pass, st)

----------------------------------------------------------------------------
(* Documents *)

CommandTexts == {
    <<"n", "=", "1">>,                  \* n=1
    <<"!", "n", " ", "=", " ", "2">>,   \* !n = 2
    <<"t", "=", "1", "2">>,             \* t=12
    <<"n", " ", "=", " ">>,             \* n =     (empty right-hand side)
    <<"!", "t", "=">>,                  \* !t=
    <<"x", "=", "1">>,                  \* x=1     (no such field)
    <<"n", "=", "z">>,                  \* n=z     (not an integer)
    <<"a", " ", "h", " ">>,             \* a h
    <<"!", "a">>,                       \* !a
    <<"e">>,                            \* e       (exclamation-only action)
    <<"!", " ", "e", " ", "h">>,        \* ! e h
    <<"d">>,                            \* d       (ambiguous once q is loaded)
    <<"p", ".", "d">>,                  \* p.d
    <<"u">>,                            \* u       (no such action)
    <<"=", "5">>,                       \* =5      (no name)
    <<"!", "a", "#">>                   \* !a#     (junk after the name)
}

DisabledTexts == { <<"n", "=", "5">>, <<"a">>, <<"#">> }

Command(text, is_enabled) ==
    [kind |-> "command", text |-> text, is_enabled |-> is_enabled,
     result |-> NoneResult, writes |-> 0]

PlainText == [kind |-> "str", text |-> <<"h">>, is_enabled |-> TRUE,
              result |-> NoneResult, writes |-> 0]

Items == {Command(t, TRUE) : t \in CommandTexts}
         \cup {Command(t, FALSE) : t \in DisabledTexts}
         \cup {PlainText}

RECURSIVE CountItems(_)
CountItems(seq) ==
    IF Len(seq) = 0 THEN 0 ELSE Len(Head(seq).content) + CountItems(Tail(seq))

----------------------------------------------------------------------------
(* Operations *)

\* the responder has not run
NoExfil == [resolved |-> FALSE, config |-> <<>>, at |-> 0]

\* is_config_root has not been called
NoCall == [called |-> FALSE, sequence |-> <<>>, result |-> FALSE]

\* no call has just returned
NoEntry == [message_sequence |-> <<>>, root_config |-> DefaultConfiguration,
            actions |-> {}]

Forget ==
    /\ entry' = NoEntry
    /\ fresh' = FALSE

Init ==
    /\ message_sequence = <<>>
    /\ root_config = DefaultConfiguration
    /\ actions = PluginP
    /\ log = <<>>
    /\ trace = <<>>
    /\ flags = <<>>
    /\ raised = "none"
    /\ entry = NoEntry
    /\ fresh = FALSE
    /\ test_exfil = NoExfil
    /\ config_root = NoCall

\* the document parser appends a message
AppendMessage(is_enabled) ==
    /\ Len(message_sequence) < MaxMessages
    /\ message_sequence' = Append(message_sequence,
                                  [is_enabled |-> is_enabled, content |-> <<>>])
    /\ Forget
    /\ UNCHANGED <<root_config, actions, log, trace, flags, raised, test_exfil, config_root>>

\* the document parser appends a content item to the last message
AppendItem(item) ==
    /\ Len(message_sequence) > 0
    /\ CountItems(message_sequence) < MaxItems
    /\ message_sequence' =
          [message_sequence EXCEPT ![Len(message_sequence)].content = Append(@, item)]
    /\ Forget
    /\ UNCHANGED <<root_config, actions, log, trace, flags, raised, test_exfil, config_root>>

\* a second plugin registers its actions
LoadPlugin ==
    /\ ~(PluginQ \subseteq actions)
    /\ actions' = actions \cup PluginQ
    /\ Forget
    /\ UNCHANGED <<message_sequence, root_config, log, trace, flags, raised, test_exfil,
                   config_root>>

\* interpret_commands(message_sequence, state, is_final_sequence)
InterpretCommands(is_final_sequence) ==
    /\ passes < MaxPasses
    /\ flags' = Append(flags, is_final_sequence)
    /\ entry' = [message_sequence |-> message_sequence, root_config |-> root_config,
                 actions |-> actions]
    /\ fresh' = TRUE
    /\ UNCHANGED <<test_exfil, config_root>>
    /\ IF is_final_sequence /\ Len(message_sequence) = 0
       THEN /\ raised' = "IndexError"
            /\ UNCHANGED <<message_sequence, root_config, actions, log, trace>>
       ELSE LET st == [root_config |-> root_config, actions |-> actions,
                       log |-> log, trace |-> trace]
                out == InterpretFrom(message_sequence, 1, 1,
                                     FinalMessage(message_sequence, is_final_sequence),
                                     passes + 1, st)
            IN /\ raised' = "none"
               /\ message_sequence' = out.seq
               /\ root_config' = out.st.root_config
               /\ actions' = out.st.actions
               /\ log' = out.st.log
               /\ trace' = out.st.trace

Next ==
    \/ \E is_enabled \in BOOLEAN : AppendMessage(is_enabled)
    \/ \E item \in Items : AppendItem(item)
    \/ LoadPlugin
    \/ \E is_final_sequence \in BOOLEAN : InterpretCommands(is_final_sequence)

Spec == Init /\ [][Next]_vars

----------------------------------------------------------------------------
(* Test responder *)

\* TestResponderConfiguration(): the fields the model follows
ResponderConfiguration == [f \in {"an_int", "temperature", "n"} |->
                              IF f = "an_int" THEN 0 ELSE 1]

\* the VarRef pairs of construct_configuration, for the integer root paths
VarRefs == { [field |-> "temperature", path |-> FieldT],
             [field |-> "n", path |-> FieldN] }

\* resolve_var_refs(config, root_config, log)
ResolveVarRefs(config, var_refs, root) ==
    [f \in DOMAIN config |->
        IF \E v \in var_refs : v.field = f /\ root[v.path].explicit
        THEN LET v == CHOOSE v \in var_refs : v.field = f
             IN root[v.path].value
        ELSE config[f]]

\* the resolved configuration kept from the first run
GenerateResponsesCached ==
    /\ test_exfil' =
          [resolved |-> TRUE,
           config |-> IF test_exfil.resolved THEN test_exfil.config
                      ELSE ResolveVarRefs(ResponderConfiguration, VarRefs, root_config),
           at |-> Len(trace)]
    /\ Forget
    /\ UNCHANGED <<message_sequence, root_config, actions, log, trace, flags, raised,
                   config_root>>

\* TestResponder.generate_responses(input_, context); "at" is how much had been
\* interpreted when it ran
GenerateResponses ==
    /\ test_exfil' =
          [resolved |-> TRUE,
           config |-> ResolveVarRefs(ResponderConfiguration, VarRefs, root_config),
           at |-> Len(trace)]
    /\ Forget
    /\ UNCHANGED <<message_sequence, root_config, actions, log, trace, flags, raised,
                   config_root>>

NextResponder ==
    \/ \E is_enabled \in BOOLEAN : AppendMessage(is_enabled)
    \/ \E item \in Items : AppendItem(item)
    \/ \E is_final_sequence \in BOOLEAN : InterpretCommands(is_final_sequence)
    \/ GenerateResponses

SpecResponder == Init /\ [][NextResponder]_vars

----------------------------------------------------------------------------
(* `% config_root = true` helper *)

PraptiDot == <<"p", "r", "a", "p", "t", "i", ".">>
ConfigRootName == <<"c", "o", "n", "f", "i", "g", "_", "r", "o", "o", "t">>
TrueText == <<"t", "r", "u", "e">>

\* the literal w occurs in t at position i
HasPrefixAt(t, i, w) ==
    /\ i + Len(w) - 1 <= Len(t)
    /\ \A k \in 1..Len(w) : t[i + k - 1] = w[k]

\* re.match(config_root_regex, text): ^\s*(prapti\.)?(config_root)\s*(=)\s*(true)\s*
\* matched from the start of the text, whatever follows "true"
MatchConfigRoot(t) ==
    LET i1 == SkipWhitespace(t, 1)
        i2 == IF HasPrefixAt(t, i1, PraptiDot) THEN i1 + Len(PraptiDot) ELSE i1
        i3 == SkipWhitespace(t, i2 + Len(ConfigRootName))
        i4 == SkipWhitespace(t, i3 + 1)
    IN /\ HasPrefixAt(t, i2, ConfigRootName)
       /\ i3 <= Len(t)
       /\ t[i3] = "="
       /\ HasPrefixAt(t, i4, TrueText)

\* disabled messages scanned as well
IsScannedAny(message) == TRUE

\* if message.is_enabled
IsScanned(message) == message.is_enabled

\* the loops of is_config_root, from item i of message m onwards
RECURSIVE IsConfigRootFrom(_, _, _)
IsConfigRootFrom(seq, m, i) ==
    IF m > Len(seq) THEN FALSE
    ELSE IF ~IsScanned(seq[m]) \/ i > Len(seq[m].content)
    THEN IsConfigRootFrom(seq, m + 1, 1)
    ELSE IF IsVisited(seq[m].content[i]) /\ MatchConfigRoot(seq[m].content[i].text)
    THEN TRUE
    ELSE IsConfigRootFrom(seq, m, i + 1)

ConfigTexts == {
    ConfigRootName \o <<" ", "=", " ">> \o TrueText,                \* config_root = true
    PraptiDot \o ConfigRootName \o <<" ", "=", " ">> \o TrueText,   \* prapti.config_root = true
    <<" ", "\t">> \o ConfigRootName \o <<"=">> \o TrueText \o <<" ">>,  \* config_root=true, padded
    ConfigRootName \o <<" ", "=", " ">> \o TrueText \o <<"x">>,     \* config_root = truex
    ConfigRootName \o <<" ", "=", " ", "f", "a", "l", "s", "e">>,   \* config_root = false
    <<"!">> \o ConfigRootName \o <<" ", "=", " ">> \o TrueText,     \* !config_root = true
    ConfigRootName \o <<" ">> \o TrueText,                          \* config_root true
    <<"x">> \o PraptiDot \o ConfigRootName \o <<"=">> \o TrueText,  \* xprapti.config_root=true
    <<"n", "=", "1">>,                                              \* n=1
    <<"a", " ", "h", " ">>                                          \* a h
}

ConfigItems ==
    {Command(t, TRUE) : t \in ConfigTexts}
    \cup {Command(ConfigRootName \o <<" ", "=", " ">> \o TrueText, FALSE)}
    \cup {[PlainText EXCEPT !.text = ConfigRootName \o <<" ", "=", " ">> \o TrueText]}

\* is_config_root run through the general interpreter
IsConfigRootInterpreting ==
    LET st == [root_config |-> root_config, actions |-> actions, log |-> log,
               trace |-> trace]
        out == InterpretFrom(message_sequence, 1, 1, 0, passes + 1, st)
    IN /\ config_root' = [called |-> TRUE, sequence |-> message_sequence,
                          result |-> IsConfigRootFrom(message_sequence, 1, 1)]
       /\ message_sequence' = out.seq
       /\ root_config' = out.st.root_config
       /\ log' = out.st.log
       /\ trace' = out.st.trace
       /\ Forget
       /\ UNCHANGED <<actions, flags, raised, test_exfil>>

\* is_config_root(config_message_sequence)
IsConfigRoot ==
    /\ config_root' = [called |-> TRUE, sequence |-> message_sequence,
                       result |-> IsConfigRootFrom(message_sequence, 1, 1)]
    /\ Forget
    /\ UNCHANGED <<message_sequence, root_config, actions, log, trace, flags, raised,
                   test_exfil>>

\* a .prapticonfig.md document is parsed, checked for the marker and interpreted; the
\* root configuration of the model declares n and t only, so the interpreter takes
\* config_root for a field it does not know
NextConfigRoot ==
    \/ \E is_enabled \in BOOLEAN : AppendMessage(is_enabled)
    \/ \E item \in ConfigItems : AppendItem(item)
    \/ \E is_final_sequence \in BOOLEAN : InterpretCommands(is_final_sequence)
    \/ IsConfigRoot

SpecConfigRoot == Init /\ [][NextConfigRoot]_vars

----------------------------------------------------------------------------
(* Vocabulary of the properties *)

Locations(seq) ==
    UNION {{<<m, i>> : i \in 1..Len(seq[m].content)} : m \in 1..Len(seq)}

ItemAt(seq, loc) == seq[loc[1]].content[loc[2]]

\* an enabled Command item of an enabled message
Reached(seq, loc) ==
    /\ seq[loc[1]].is_enabled
    /\ ItemAt(seq, loc).kind = "command"
    /\ ItemAt(seq, loc).is_enabled

Parsed(seq, loc) == MatchCommand(ItemAt(seq, loc).text)

\* diagnostics reported for the command at loc during pass p
Errors(lg, p, loc) == {k \in 1..Len(lg) : lg[k].pass = p /\ lg[k].loc = loc}

ErrorsCoded(lg, p, loc, code) == {k \in Errors(lg, p, loc) : lg[k].code = code}

\* lookups, invocations and assign_field calls made for the command at loc during pass p
Events(tr, p, loc) == {k \in 1..Len(tr) : tr[k].pass = p /\ tr[k].loc = loc}

EventsOf(tr, p, loc, kind) == {k \in Events(tr, p, loc) : tr[k].kind = kind}

\* diagnostics reported during pass p
ErrorsIn(lg, p) == {k \in 1..Len(lg) : lg[k].pass = p}

\* the command at loc is in the last message of a pass flagged final
InFinalPosition(seq, loc, is_final_sequence) ==
    is_final_sequence /\ loc[1] = Len(seq)

\* the command at loc is a well-formed action invocation that names exactly one
\* registered action, whose exclamation_only flag is excl_only
NamesOneAction(seq, loc, registry, excl_only) ==
    /\ Parsed(seq, loc).matched
    /\ ~Parsed(seq, loc).equals_sign
    /\ \E a \in registry :
          /\ a.exclamation_only = excl_only
          /\ {b \in registry : Parsed(seq, loc).name \in {b.name, b.qualified_name}} = {a}

----------------------------------------------------------------------------
(* C1: a well-formed command written with a leading "!" has no effect in a  *)
(* pass unless the pass is flagged final and the command is in the last    *)
(* message: no diagnostic, no lookup, no invocation, no assign_field call,  *)
(* an empty result; a pass all of whose commands are gated out this way    *)
(* leaves the configuration and the registry unchanged.                    *)
C1_GatedOut(seq, loc, is_final_sequence) ==
    /\ ItemAt(seq, loc).kind = "command"
    /\ Parsed(seq, loc).matched
    /\ Parsed(seq, loc).has_exclamation
    /\ ~InFinalPosition(seq, loc, is_final_sequence)

C1_ExclamationGate ==
    fresh =>
        LET p == passes
            seq == entry.message_sequence
        IN /\ \A loc \in Locations(seq) :
                 C1_GatedOut(seq, loc, flags[p]) =>
                    /\ Errors(log, p, loc) = {}
                    /\ Events(trace, p, loc) = {}
                    /\ ItemAt(message_sequence, loc).result = NoneResult
           /\ (\A loc \in Locations(seq) :
                  Reached(seq, loc) => C1_GatedOut(seq, loc, flags[p]))
              => /\ root_config = entry.root_config
                 /\ actions = entry.actions
                 /\ ErrorsIn(log, p) = {}

\* a "!" command was interpreted by a pass not flagged final and did nothing
C1_Witness ==
    /\ flags = <<FALSE>>
    /\ \E loc \in Locations(message_sequence) :
          /\ Reached(message_sequence, loc)
          /\ Parsed(message_sequence, loc).matched
          /\ Parsed(message_sequence, loc).has_exclamation
          /\ loc[1] = Len(message_sequence)
          /\ ItemAt(message_sequence, loc).writes = 1
          /\ Events(trace, 1, loc) = {}

(* C2: in every pass, whatever its flag and the position of the message, an *)
(* enabled command of an enabled message written without "!" is executed   *)
(* exactly once: assign_field is called once for an assignment with a      *)
(* right-hand side, the action function is called once for an action name  *)
(* that matches one action that is not exclamation-only.                   *)
C2_EveryPass ==
    fresh =>
        LET p == passes
            seq == entry.message_sequence
        IN \A loc \in Locations(seq) :
              (Reached(seq, loc) /\ Parsed(seq, loc).matched
                                 /\ ~Parsed(seq, loc).has_exclamation) =>
                 /\ (Parsed(seq, loc).equals_sign /\ Strip(Parsed(seq, loc).rest) # <<>>)
                    => /\ Cardinality(EventsOf(trace, p, loc, "assign")) = 1
                       /\ Cardinality(EventsOf(trace, p, loc, "call")) = 0
                 /\ NamesOneAction(seq, loc, entry.actions, FALSE)
                    => /\ Cardinality(EventsOf(trace, p, loc, "call")) = 1
                       /\ Cardinality(EventsOf(trace, p, loc, "assign")) = 0
                 /\ ItemAt(message_sequence, loc).writes = ItemAt(seq, loc).writes + 1

\* a command without "!" in a non-final message was run by each of two passes
C2_Witness ==
    /\ passes = 2
    /\ \E loc \in Locations(message_sequence) :
          /\ Reached(message_sequence, loc)
          /\ loc[1] < Len(message_sequence)
          /\ NamesOneAction(message_sequence, loc, actions, FALSE)
          /\ ~Parsed(message_sequence, loc).has_exclamation
          /\ Cardinality(EventsOf(trace, 1, loc, "call")) = 1
          /\ Cardinality(EventsOf(trace, 2, loc, "call")) = 1

(* C3: an exclamation-only action written "!act" is not invoked by a pass   *)
(* that is not flagged final while it sits in a message that is not the    *)
(* last, and is invoked exactly once by a pass flagged final while it sits *)
(* in the last message (enabled).                                          *)
C3_Deferred ==
    fresh =>
        LET p == passes
            seq == entry.message_sequence
        IN \A loc \in Locations(seq) :
              (Reached(seq, loc) /\ Parsed(seq, loc).has_exclamation
                                 /\ NamesOneAction(seq, loc, entry.actions, TRUE)) =>
                 /\ (~flags[p] /\ loc[1] # Len(seq))
                    => EventsOf(trace, p, loc, "call") = {}
                 /\ (flags[p] /\ loc[1] = Len(seq))
                    => Cardinality(EventsOf(trace, p, loc, "call")) = 1

\* "!e" sat through a pass not flagged final without running, then ran once in
\* the pass flagged final
C3_Witness ==
    /\ flags = <<FALSE, TRUE>>
    /\ \E loc \in Locations(message_sequence) :
          /\ Reached(message_sequence, loc)
          /\ Parsed(message_sequence, loc).has_exclamation
          /\ NamesOneAction(message_sequence, loc, actions, TRUE)
          /\ ItemAt(message_sequence, loc).writes = 2
          /\ EventsOf(trace, 1, loc, "call") = {}
          /\ Cardinality(EventsOf(trace, 2, loc, "call")) = 1

(* C4: a command without "!" whose name matches exactly one action, which   *)
(* is exclamation-only, never invokes it: in every pass and every message  *)
(* it reports exactly one diagnostic, excl-only-action-without-excl, and   *)
(* its result is empty.                                                    *)
C4_ExclamationOnly ==
    fresh =>
        LET p == passes
            seq == entry.message_sequence
        IN \A loc \in Locations(seq) :
              (Reached(seq, loc) /\ ~Parsed(seq, loc).has_exclamation
                                 /\ NamesOneAction(seq, loc, entry.actions, TRUE)) =>
                 /\ EventsOf(trace, p, loc, "call") = {}
                 /\ Cardinality(Errors(log, p, loc)) = 1
                 /\ Cardinality(ErrorsCoded(log, p, loc,
                                            "excl-only-action-without-excl")) = 1
                 /\ ItemAt(message_sequence, loc).result = NoneResult

\* "e" was refused in the last message of a pass flagged final
C4_Witness ==
    /\ flags = <<TRUE>>
    /\ \E loc \in Locations(message_sequence) :
          /\ Reached(message_sequence, loc)
          /\ loc[1] = Len(message_sequence)
          /\ ~Parsed(message_sequence, loc).has_exclamation
          /\ NamesOneAction(message_sequence, loc, actions, TRUE)
          /\ Cardinality(ErrorsCoded(log, 1, loc, "excl-only-action-without-excl")) = 1

(* C5: an action command that passes the gate and whose name matches more   *)
(* than one action invokes nothing, reports exactly one diagnostic,        *)
(* ambiguous-action-name, and has an empty result; one whose name matches  *)
(* no action invokes nothing and reports exactly one diagnostic,           *)
(* action-not-found.                                                       *)
C5_Matches(seq, loc, registry) ==
    {a \in registry : Parsed(seq, loc).name \in {a.name, a.qualified_name}}

C5_Dispatched(seq, loc, is_final_sequence) ==
    /\ Reached(seq, loc)
    /\ Parsed(seq, loc).matched
    /\ ~Parsed(seq, loc).equals_sign
    /\ Parsed(seq, loc).has_exclamation => InFinalPosition(seq, loc, is_final_sequence)

C5_NoGuessing ==
    fresh =>
        LET p == passes
            seq == entry.message_sequence
        IN \A loc \in Locations(seq) :
              C5_Dispatched(seq, loc, flags[p]) =>
                 /\ Cardinality(C5_Matches(seq, loc, entry.actions)) > 1
                    => /\ EventsOf(trace, p, loc, "call") = {}
                       /\ Cardinality(Errors(log, p, loc)) = 1
                       /\ Cardinality(ErrorsCoded(log, p, loc,
                                                  "ambiguous-action-name")) = 1
                       /\ ItemAt(message_sequence, loc).result = NoneResult
                 /\ C5_Matches(seq, loc, entry.actions) = {}
                    => /\ EventsOf(trace, p, loc, "call") = {}
                       /\ Cardinality(Errors(log, p, loc)) = 1
                       /\ Cardinality(ErrorsCoded(log, p, loc,
                                                  "action-not-found")) = 1
                       /\ ItemAt(message_sequence, loc).result = NoneResult

\* "d" ran while only one plugin defined it and was refused as ambiguous after
\* the second plugin registered its own "d"
C5_Witness ==
    /\ passes = 2
    /\ \E loc \in Locations(message_sequence) :
          /\ Reached(message_sequence, loc)
          /\ Cardinality(C5_Matches(message_sequence, loc, actions)) = 2
          /\ Cardinality(EventsOf(trace, 1, loc, "call")) = 1
          /\ EventsOf(trace, 2, loc, "call") = {}
          /\ Cardinality(ErrorsCoded(log, 2, loc, "ambiguous-action-name")) = 1

(* C6: within a pass the effects are applied in document order, and the     *)
(* root configuration an action function is handed is the configuration at *)
(* the start of the pass changed by exactly the successful assignments of  *)
(* the executed commands before it, the last one to each field winning; no *)
(* assignment of a later command shows in it.                              *)
C6_Precedes(loc1, loc2) ==
    loc1[1] < loc2[1] \/ (loc1[1] = loc2[1] /\ loc1[2] < loc2[2])

\* the commands before loc that assign a convertible value to field f in this pass
C6_Assigning(seq, loc, is_final_sequence, f) ==
    {l \in Locations(seq) :
        /\ C6_Precedes(l, loc)
        /\ Reached(seq, l)
        /\ Parsed(seq, l).matched
        /\ Parsed(seq, l).has_exclamation => InFinalPosition(seq, l, is_final_sequence)
        /\ Parsed(seq, l).equals_sign
        /\ Parsed(seq, l).name = f
        /\ IsIntegerText(Strip(Parsed(seq, l).rest))}

C6_ConfigBefore(seq, loc, is_final_sequence, config) ==
    [f \in FieldNames |->
        LET assigning == C6_Assigning(seq, loc, is_final_sequence, f)
        IN IF assigning = {} THEN config[f]
           ELSE LET last == CHOOSE l \in assigning :
                               \A o \in assigning : o = l \/ C6_Precedes(o, l)
                IN [value |-> ConvertInteger(Strip(Parsed(seq, last).rest)),
                    explicit |-> TRUE]]

C6_InOrder(events, p) ==
    \A j, k \in 1..Len(events) :
        (j < k /\ events[j].pass = p /\ events[k].pass = p)
        => ~C6_Precedes(events[k].loc, events[j].loc)

C6_DocumentOrder ==
    fresh =>
        LET p == passes
            seq == entry.message_sequence
        IN /\ C6_InOrder(trace, p)
           /\ C6_InOrder(log, p)
           /\ \A k \in 1..Len(trace) :
                 (trace[k].pass = p /\ trace[k].kind = "call")
                 => trace[k].root_config =
                       C6_ConfigBefore(seq, trace[k].loc, flags[p], entry.root_config)

\* an action that follows "n=1" in its message was handed n = 1, in a document
\* whose first pass started from the default configuration
C6_Witness ==
    /\ passes = 1
    /\ \E k \in 1..Len(trace) :
          /\ trace[k].kind = "call"
          /\ trace[k].loc = <<1, 2>>
          /\ trace[k].root_config[FieldN] = [value |-> 1, explicit |-> TRUE]

(* C7: a command that reports a diagnostic (parse failure, empty right-hand *)
(* side, field not found, conversion failure, action not found, ambiguous  *)
(* name, exclamation-only refusal) does not stop the pass: every enabled   *)
(* command after it, in its message and in every later enabled message, is *)
(* interpreted in the same pass, and the call returns normally.            *)
C7_UserErrors ==
    {"unknown-command", "skiping-empty-assignment", "field-not-found",
     "type-conversion-failure", "action-not-found", "ambiguous-action-name",
     "excl-only-action-without-excl"}

C7_Interpreted(seq, loc, p) ==
    /\ ItemAt(message_sequence, loc).writes = ItemAt(seq, loc).writes + 1
    /\ \/ C1_GatedOut(seq, loc, flags[p])
       \/ Errors(log, p, loc) # {}
       \/ Events(trace, p, loc) # {}

C7_ErrorsNonFatal ==
    fresh =>
        LET p == passes
            seq == entry.message_sequence
        IN /\ \A k \in 1..Len(log) : log[k].code \in C7_UserErrors
           /\ \A loc1, loc2 \in Locations(seq) :
                 (/\ C6_Precedes(loc1, loc2)
                  /\ Reached(seq, loc2)
                  /\ Errors(log, p, loc1) # {})
                 => /\ C7_Interpreted(seq, loc2, p)
                    /\ raised = "none"

\* the diagnostic was reported for the first command and the command of the next
\* message still ran
C7_WitnessFor(code) ==
    /\ passes = 1
    /\ Len(message_sequence) = 2
    /\ <<2, 1>> \in Locations(message_sequence)
    /\ Cardinality(ErrorsCoded(log, 1, <<1, 1>>, code)) = 1
    /\ Reached(message_sequence, <<2, 1>>)
    /\ Cardinality(EventsOf(trace, 1, <<2, 1>>, "call")) = 1

C7_Witness == C7_WitnessFor("type-conversion-failure")

(* C8: a command whose text does not match the command grammar reports, in *)
(* every pass and every message, with or without "!", exactly one          *)
(* diagnostic, unknown-command; no lookup, invocation or assignment is     *)
(* made for it, its result is empty, and a pass whose commands all fail to *)
(* parse leaves the configuration and the registry unchanged.              *)
C8_InGrammar(t) ==
    \E i \in 1..Len(t) : \E j \in i..Len(t) :
        /\ \A k \in 1..(i - 1) : t[k] \in WhitespaceChars \/ (k = 1 /\ t[k] = "!")
        /\ \A k \in i..j : t[k] \in NameChars
        /\ j = Len(t) \/ t[j + 1] \in WhitespaceChars \cup {"="}

C8_ParseFailure ==
    fresh =>
        LET p == passes
            seq == entry.message_sequence
        IN /\ \A loc \in Locations(seq) :
                 (Reached(seq, loc) /\ ~C8_InGrammar(ItemAt(seq, loc).text)) =>
                    /\ Cardinality(Errors(log, p, loc)) = 1
                    /\ Cardinality(ErrorsCoded(log, p, loc, "unknown-command")) = 1
                    /\ Events(trace, p, loc) = {}
                    /\ ItemAt(message_sequence, loc).result = NoneResult
           /\ (\A loc \in Locations(seq) :
                  Reached(seq, loc) => ~C8_InGrammar(ItemAt(seq, loc).text))
              => /\ root_config = entry.root_config
                 /\ actions = entry.actions

\* "!a#" was rejected in the last message of a pass flagged final
C8_Witness ==
    /\ flags = <<TRUE>>
    /\ \E loc \in Locations(message_sequence) :
          /\ Reached(message_sequence, loc)
          /\ loc[1] = Len(message_sequence)
          /\ ItemAt(message_sequence, loc).text[1] = "!"
          /\ ~C8_InGrammar(ItemAt(message_sequence, loc).text)
          /\ Cardinality(ErrorsCoded(log, 1, loc, "unknown-command")) = 1

(* C9: an assignment whose right-hand side is empty or all whitespace and   *)
(* that passes the exclamation gate reports exactly one diagnostic,        *)
(* skiping-empty-assignment, and not unknown-command; assign_field is not  *)
(* called for it, the call returns normally, and a pass whose commands are *)
(* all of this kind leaves the configuration unchanged.                    *)
C9_Blank(t) == \A k \in 1..Len(t) : t[k] \in WhitespaceChars

C9_EmptyAssignment(seq, loc, is_final_sequence) ==
    /\ Reached(seq, loc)
    /\ Parsed(seq, loc).matched
    /\ Parsed(seq, loc).equals_sign
    /\ C9_Blank(Parsed(seq, loc).rest)
    /\ Parsed(seq, loc).has_exclamation => InFinalPosition(seq, loc, is_final_sequence)

C9_EmptyRightHandSide ==
    fresh =>
        LET p == passes
            seq == entry.message_sequence
        IN /\ \A loc \in Locations(seq) :
                 C9_EmptyAssignment(seq, loc, flags[p]) =>
                    /\ Cardinality(Errors(log, p, loc)) = 1
                    /\ Cardinality(ErrorsCoded(log, p, loc,
                                               "skiping-empty-assignment")) = 1
                    /\ ErrorsCoded(log, p, loc, "unknown-command") = {}
                    /\ Events(trace, p, loc) = {}
                    /\ raised = "none"
           /\ (\A loc \in Locations(seq) :
                  Reached(seq, loc) => C9_EmptyAssignment(seq, loc, flags[p]))
              => root_config = entry.root_config

\* "n = " was skipped by a pass that found n already assigned, and n kept its value
C9_Witness ==
    /\ passes = 2
    /\ root_config[FieldN].explicit
    /\ \E loc \in Locations(message_sequence) :
          /\ Reached(message_sequence, loc)
          /\ Parsed(message_sequence, loc).name = FieldN
          /\ Parsed(message_sequence, loc).equals_sign
          /\ C9_Blank(Parsed(message_sequence, loc).rest)
          /\ Cardinality(ErrorsCoded(log, 2, loc, "skiping-empty-assignment")) = 1

(* C10: a call of assign_field that names no field, or gives a field a      *)
(* value that does not convert to its type, returns with every field of    *)
(* the configuration as it was before the call, reports exactly one        *)
(* diagnostic of its kind (field-not-found, type-conversion-failure), and  *)
(* the pass returns normally.                                              *)
C10_Failure(event) ==
    IF event.name \notin FieldNames THEN "field-not-found"
    ELSE IF \E k \in 1..Len(event.args) : event.args[k] \notin Digits
    THEN "type-conversion-failure"
    ELSE "ok"

C10_FailedAssignment ==
    fresh =>
        LET p == passes
        IN \A k \in 1..Len(trace) :
              (/\ trace[k].pass = p
               /\ trace[k].kind = "assign"
               /\ C10_Failure(trace[k]) # "ok")
              => /\ k < Len(trace)
                 /\ trace[k + 1].kind = "assigned"
                 /\ trace[k + 1].loc = trace[k].loc
                 /\ trace[k + 1].root_config = trace[k].root_config
                 /\ Cardinality(Errors(log, p, trace[k].loc)) = 1
                 /\ Cardinality(ErrorsCoded(log, p, trace[k].loc,
                                            C10_Failure(trace[k]))) = 1
                 /\ raised = "none"

\* "n=z" failed to convert after n had been assigned, and n kept its value
C10_Witness ==
    \E k \in 1..Len(trace) :
        /\ trace[k].kind = "assign"
        /\ trace[k].name = FieldN
        /\ C10_Failure(trace[k]) = "type-conversion-failure"
        /\ trace[k].root_config[FieldN].explicit
        /\ trace[k + 1].root_config = trace[k].root_config

(* C11: a valid assignment "name = value" written without "!" is handed to  *)
(* assign_field with the name and the stripped value, which sets the named *)
(* field to the integer the value denotes and leaves the other fields as   *)
(* they were; assigning the same value again, in the same pass or in the   *)
(* next, leaves the configuration as the first assignment left it.         *)
RECURSIVE C11_Value(_, _)
C11_Value(rhs, acc) ==
    IF rhs = <<>> THEN acc
    ELSE C11_Value(Tail(rhs), 10 * acc + DigitValue(Head(rhs)))

C11_Valid(name, rhs) ==
    /\ name \in FieldNames
    /\ rhs # <<>>
    /\ \A k \in 1..Len(rhs) : rhs[k] \in Digits

C11_ValidEvent(k) ==
    /\ trace[k].kind = "assign"
    /\ ~trace[k].has_exclamation
    /\ C11_Valid(trace[k].name, trace[k].args)

C11_SameAssignment(j, k) ==
    /\ j < k
    /\ C11_ValidEvent(j)
    /\ C11_ValidEvent(k)
    /\ trace[j].name = trace[k].name
    /\ trace[j].args = trace[k].args
    /\ \A i \in (j + 1)..(k - 1) : trace[i].kind # "assign"

C11_AssignmentIdempotent ==
    /\ \A k \in 1..Len(trace) :
          C11_ValidEvent(k) =>
             /\ k < Len(trace)
             /\ trace[k + 1].kind = "assigned"
             /\ trace[k + 1].root_config[trace[k].name] =
                   [value |-> C11_Value(trace[k].args, 0), explicit |-> TRUE]
             /\ \A f \in FieldNames \ {trace[k].name} :
                   trace[k + 1].root_config[f] = trace[k].root_config[f]
    /\ \A j, k \in 1..Len(trace) :
          C11_SameAssignment(j, k) => trace[k + 1].root_config = trace[j + 1].root_config
    /\ fresh =>
          \A loc \in Locations(entry.message_sequence) :
             LET c == Parsed(entry.message_sequence, loc)
             IN (/\ Reached(entry.message_sequence, loc)
                 /\ c.matched /\ c.equals_sign /\ ~c.has_exclamation
                 /\ C11_Valid(c.name, Strip(c.rest)))
                => \E k \in EventsOf(trace, passes, loc, "assign") :
                      /\ trace[k].name = c.name
                      /\ trace[k].args = Strip(c.rest)
                      /\ ~trace[k].has_exclamation

\* "t=12" was interpreted by two passes: t is 12 after the first and the same
\* configuration after the second
C11_Witness ==
    /\ passes = 2
    /\ root_config[FieldT] = [value |-> 12, explicit |-> TRUE]
    /\ \E j, k \in 1..Len(trace) :
          /\ C11_SameAssignment(j, k)
          /\ trace[j].pass = 1
          /\ trace[k].pass = 2
          /\ trace[j].name = FieldT
          /\ ~trace[j].root_config[FieldT].explicit
          /\ trace[k + 1].root_config = trace[j + 1].root_config

(* C12: the configuration the responder resolves holds, for each field      *)
(* bound by a VarRef, the value last assigned to the referenced root path  *)
(* if that path has been assigned at least once before the resolution      *)
(* (whatever the value, the default included), and the field's local value *)
(* otherwise; the other fields hold their local values. Every run resolves *)
(* anew, so it reflects the assignments made since the run before.         *)
C12_Assignments(path, at) ==
    {k \in 1..at : /\ trace[k].kind = "assign"
                   /\ trace[k].name = path
                   /\ C11_Valid(trace[k].name, trace[k].args)}

C12_Expected(f, at) ==
    IF \E v \in VarRefs : v.field = f /\ C12_Assignments(v.path, at) # {}
    THEN LET v == CHOOSE v \in VarRefs : v.field = f
             last == CHOOSE k \in C12_Assignments(v.path, at) :
                        \A j \in C12_Assignments(v.path, at) : j <= k
         IN C11_Value(trace[last].args, 0)
    ELSE ResponderConfiguration[f]

C12_LateBound ==
    test_exfil.resolved =>
        /\ DOMAIN test_exfil.config = DOMAIN ResponderConfiguration
        /\ \A f \in DOMAIN ResponderConfiguration :
              test_exfil.config[f] = C12_Expected(f, test_exfil.at)

\* t was assigned 12, the value of its default, and n was never assigned: the
\* responder resolved temperature to 12, not to its local 1, and n to its local
\* 1, not to the root default 0
C12_Witness ==
    /\ test_exfil.resolved
    /\ passes >= 1
    /\ test_exfil.at = Len(trace)
    /\ C12_Assignments(FieldT, test_exfil.at) # {}
    /\ C12_Assignments(FieldN, test_exfil.at) = {}
    /\ root_config[FieldT] = [value |-> DefaultConfiguration[FieldT].value,
                              explicit |-> TRUE]
    /\ test_exfil.config = [f \in {"an_int", "temperature", "n"} |->
                               IF f = "an_int" THEN 0 ELSE IF f = "n" THEN 1 ELSE 12]

----------------------------------------------------------------------------
(* C13, as stated: the result of a command is written at most once over    *)
(* the lifetime of the command, however many passes run over the sequence. *)
C13_WrittenAtMostOnce ==
    \A loc \in Locations(message_sequence) : ItemAt(message_sequence, loc).writes <= 1

(* C13, amended: the result of a command is written exactly once by every  *)
(* pass of interpret_commands that visits it (the command is enabled and   *)
(* its message is enabled), so a command is interpreted again in every     *)
(* pass; a pass writes the result of no other item, and document parsing   *)
(* and response generation write no result at all.                         *)
C13_OncePerPass ==
    [][\A loc \in Locations(message_sequence) :
          LET before == ItemAt(message_sequence, loc)
              after == ItemAt(message_sequence', loc)
          IN IF flags' # flags /\ Reached(message_sequence, loc)
             THEN after.writes = before.writes + 1
             ELSE after.writes = before.writes /\ after.result = before.result]_vars

\* two passes have written the result of one command twice (the second time
\* with an unchanged outcome) and have left a plain text item unwritten; the
\* responder has run since
C13_Witness ==
    /\ passes = 2
    /\ test_exfil.resolved
    /\ test_exfil.at = Len(trace)
    /\ \E loc, other \in Locations(message_sequence) :
          /\ Reached(message_sequence, loc)
          /\ ItemAt(message_sequence, loc).writes = 2
          /\ ItemAt(message_sequence, loc).result.kind = "value"
          /\ Cardinality(EventsOf(trace, 1, loc, "call")) = 1
          /\ Cardinality(EventsOf(trace, 2, loc, "call")) = 1
          /\ ItemAt(message_sequence, other).kind = "str"
          /\ ItemAt(message_sequence, other).writes = 0

----------------------------------------------------------------------------
(* C14: is_config_root returns true exactly when some enabled command of   *)
(* some enabled message has a text that begins, after optional whitespace, *)
(* with config_root or prapti.config_root, "=" and true (whitespace        *)
(* allowed around "="); disabled commands, commands of disabled messages   *)
(* and plain text never make it return true.                               *)
C14_MatchesPattern(t) ==
    \E a \in 0..Len(t), b, c \in 0..Len(t) :
       \E name \in {ConfigRootName, PraptiDot \o ConfigRootName} :
          LET eq == a + Len(name) + b + 1
              tr == eq + c
          IN /\ tr + Len(TrueText) <= Len(t)
             /\ \A k \in 1..a : t[k] \in WhitespaceChars
             /\ SubSeq(t, a + 1, a + Len(name)) = name
             /\ \A k \in (a + Len(name) + 1)..(eq - 1) : t[k] \in WhitespaceChars
             /\ t[eq] = "="
             /\ \A k \in (eq + 1)..tr : t[k] \in WhitespaceChars
             /\ SubSeq(t, tr + 1, tr + Len(TrueText)) = TrueText

\* the texts of the documents that match the pattern
C14_Markers == {t \in {item.text : item \in ConfigItems} : C14_MatchesPattern(t)}

C14_Marked(seq) ==
    \E loc \in Locations(seq) :
       /\ seq[loc[1]].is_enabled
       /\ ItemAt(seq, loc).kind = "command"
       /\ ItemAt(seq, loc).is_enabled
       /\ ItemAt(seq, loc).text \in C14_Markers

C14_ConfigRoot ==
    config_root.called => (config_root.result <=> C14_Marked(config_root.sequence))

\* the marker in a disabled message and, disabled, in an enabled one: false; and
\* after one more command, the marker enabled in the enabled message: true
C14_WitnessFalse ==
    /\ config_root.called
    /\ ~config_root.result
    /\ Len(config_root.sequence) = 2
    /\ ~config_root.sequence[1].is_enabled
    /\ config_root.sequence[2].is_enabled
    /\ \E loc \in Locations(config_root.sequence) :
          /\ loc[1] = 1
          /\ ItemAt(config_root.sequence, loc).kind = "command"
          /\ ItemAt(config_root.sequence, loc).is_enabled
          /\ ItemAt(config_root.sequence, loc).text \in C14_Markers
    /\ \E loc \in Locations(config_root.sequence) :
          /\ loc[1] = 2
          /\ ItemAt(config_root.sequence, loc).kind = "command"
          /\ ~ItemAt(config_root.sequence, loc).is_enabled
          /\ ItemAt(config_root.sequence, loc).text \in C14_Markers

C14_Witness ==
    /\ config_root.called
    /\ config_root.result
    /\ Len(config_root.sequence) = 2
    /\ ~config_root.sequence[1].is_enabled
    /\ Len(config_root.sequence[1].content) = 1
    /\ ItemAt(config_root.sequence, <<1, 1>>).text \in C14_Markers
    /\ config_root.sequence[2].is_enabled
    /\ Len(config_root.sequence[2].content) = 1
    /\ ItemAt(config_root.sequence, <<2, 1>>).text = PraptiDot \o ConfigRootName
                                                     \o <<" ", "=", " ">> \o TrueText

----------------------------------------------------------------------------
(* C15: a call of is_config_root changes nothing but its own return value: *)
(* the message sequence with every result slot, the root configuration,    *)
(* the action registry and the diagnostics are as before, and no field is  *)
(* assigned and no action looked up or invoked during the call.            *)
C15_ReadOnly ==
    [][config_root' # config_root =>
          UNCHANGED <<message_sequence, root_config, actions, log, trace>>]_vars

\* is_config_root has returned for a document whose enabled commands are a valid
\* assignment and a valid action invocation, and nothing has been interpreted
C15_Witness ==
    /\ config_root.called
    /\ config_root.sequence = message_sequence
    /\ \E m \in 1..Len(message_sequence) :
          /\ message_sequence[m].is_enabled
          /\ message_sequence[m].content =
                <<Command(<<"n", "=", "1">>, TRUE), Command(<<"a", " ", "h", " ">>, TRUE)>>
    /\ root_config = DefaultConfiguration
    /\ log = <<>>
    /\ trace = <<>>

----------------------------------------------------------------------------
(* C16: every registered action is the one match of its fully qualified    *)
(* name; it is also the one match of its bare name as long as no action of *)
(* another namespace has that bare name, and from then on the bare name    *)
(* matches all of them. A command that names an action either way is       *)
(* dispatched to it exactly when the name matches it alone.                *)
C16_Homonyms(registry, a) == {b \in registry : b.name = a.name}

\* the namespace an action was registered under: its qualified name without ".name"
C16_Namespace(a) == SubSeq(a.qualified_name, 1, Len(a.qualified_name) - Len(a.name) - 1)

C16_Registry(registry) ==
    \A a \in registry :
       /\ LookupAction(registry, a.qualified_name) = {a}
       /\ LookupAction(registry, a.name) = C16_Homonyms(registry, a)
       /\ (\A b \in registry : b.name = a.name => C16_Namespace(b) = C16_Namespace(a))
          => LookupAction(registry, a.name) = {a}

C16_NameResolution ==
    /\ C16_Registry(actions)
    /\ fresh =>
        LET p == passes
            seq == entry.message_sequence
        IN \A loc \in Locations(seq) : \A a \in entry.actions :
              /\ C5_Dispatched(seq, loc, flags[p])
              /\ a.exclamation_only => Parsed(seq, loc).has_exclamation
              /\ Parsed(seq, loc).name \in {a.name, a.qualified_name}
              => IF \/ Parsed(seq, loc).name = a.qualified_name
                    \/ C16_Homonyms(entry.actions, a) = {a}
                 THEN /\ Cardinality(EventsOf(trace, p, loc, "call")) = 1
                      /\ Errors(log, p, loc) = {}
                      /\ ItemAt(message_sequence, loc).result.kind =
                            (IF a.returns = "none" THEN "none" ELSE a.returns)
                 ELSE /\ EventsOf(trace, p, loc, "call") = {}
                      /\ Cardinality(ErrorsCoded(log, p, loc,
                                                 "ambiguous-action-name")) = 1

\* d and p.d were both dispatched to p.d while p was the only namespace with a d;
\* with q loaded, d is ambiguous and p.d is still dispatched
C16_Witness ==
    /\ passes = 2
    /\ fresh
    /\ PluginQ \subseteq actions
    /\ \E bare, qualified \in Locations(message_sequence) :
          /\ Parsed(message_sequence, bare).name = <<"d">>
          /\ Parsed(message_sequence, qualified).name = <<"p", ".", "d">>
          /\ Cardinality(LookupAction(actions, <<"d">>)) = 2
          /\ Cardinality(EventsOf(trace, 1, bare, "call")) = 1
          /\ EventsOf(trace, 2, bare, "call") = {}
          /\ Cardinality(EventsOf(trace, 1, qualified, "call")) = 1
          /\ Cardinality(EventsOf(trace, 2, qualified, "call")) = 1

----------------------------------------------------------------------------
(* C17: after a pass, a visited command that invokes an action, passes the *)
(* exclamation gate and names exactly one action, which it is permitted to *)
(* run, holds what the function of that action returned: nothing, a plain  *)
(* value or a message; the function was called once, with the name as      *)
(* written and the rest of the text without surrounding whitespace. Every  *)
(* other visited command holds an empty result and called no function.     *)
C17_Stripped(t) ==
    IF C9_Blank(t) THEN <<>>
    ELSE CHOOSE s \in {SubSeq(t, i, j) : i \in 1..Len(t), j \in 1..Len(t)} :
            /\ Len(s) > 0
            /\ s[1] \notin WhitespaceChars
            /\ s[Len(s)] \notin WhitespaceChars
            /\ \E before, after \in 0..Len(t) :
                  /\ before + Len(s) + after = Len(t)
                  /\ SubSeq(t, before + 1, before + Len(s)) = s
                  /\ \A k \in 1..before : t[k] \in WhitespaceChars
                  /\ \A k \in (Len(t) - after + 1)..Len(t) : t[k] \in WhitespaceChars

\* what the function of action a returns for raw arguments args
C17_Returned(a, args) ==
    CASE a.returns = "none" -> NoneResult
      [] a.returns = "value" -> [kind |-> "value", value |-> args]
      [] a.returns = "message" -> [kind |-> "message", value |-> args]

C17_ResultStorage ==
    fresh =>
        LET p == passes
            seq == entry.message_sequence
        IN \A loc \in Locations(seq) :
              Reached(seq, loc) =>
                 LET cmd == Parsed(seq, loc)
                     matches == C5_Matches(seq, loc, entry.actions)
                     calls == EventsOf(trace, p, loc, "call")
                 IN IF /\ C5_Dispatched(seq, loc, flags[p])
                       /\ Cardinality(matches) = 1
                       /\ \A a \in matches : a.exclamation_only => cmd.has_exclamation
                    THEN /\ Cardinality(calls) = 1
                         /\ \A k \in calls :
                               /\ trace[k].name = cmd.name
                               /\ trace[k].args = C17_Stripped(cmd.rest)
                         /\ \A a \in matches :
                               ItemAt(message_sequence, loc).result =
                                  C17_Returned(a, C17_Stripped(cmd.rest))
                    ELSE /\ calls = {}
                         /\ ItemAt(message_sequence, loc).result = NoneResult

\* one pass stored a plain value, the argument without the space that follows it
\* in the text, and a message
C17_Witness ==
    /\ fresh
    /\ \E loc \in Locations(message_sequence) :
          /\ ItemAt(message_sequence, loc).text = <<"a", " ", "h", " ">>
          /\ ItemAt(message_sequence, loc).result = [kind |-> "value", value |-> <<"h">>]
          /\ Cardinality(EventsOf(trace, passes, loc, "call")) = 1
    /\ \E loc \in Locations(message_sequence) :
          /\ ItemAt(message_sequence, loc).text = <<"!", " ", "e", " ", "h">>
          /\ ItemAt(message_sequence, loc).result = [kind |-> "message", value |-> <<"h">>]

----------------------------------------------------------------------------
(* C18: a pass interprets the enabled commands of the enabled messages,    *)
(* each once and in document order, and nothing else: a disabled command,  *)
(* a command of a disabled message and a plain text item keep their result *)
(* and cause no diagnostic, lookup, invocation or assignment; the messages *)
(* and items are the same after the pass, in number, order, enabled flags  *)
(* and text.                                                               *)
C18_SameDocument(before, after) ==
    /\ Len(after) = Len(before)
    /\ \A m \in 1..Len(before) :
          /\ after[m].is_enabled = before[m].is_enabled
          /\ Len(after[m].content) = Len(before[m].content)
          /\ \A i \in 1..Len(before[m].content) :
                /\ after[m].content[i].kind = before[m].content[i].kind
                /\ after[m].content[i].text = before[m].content[i].text
                /\ after[m].content[i].is_enabled = before[m].content[i].is_enabled

C18_Visited(seq) ==
    {loc \in Locations(seq) :
        /\ seq[loc[1]].is_enabled
        /\ ItemAt(seq, loc).kind = "command"
        /\ ItemAt(seq, loc).is_enabled}

C18_VisitingRule ==
    fresh =>
        LET p == passes
            seq == entry.message_sequence
        IN /\ C18_SameDocument(seq, message_sequence)
           /\ \A loc \in C18_Visited(seq) :
                 /\ ItemAt(message_sequence, loc).writes = ItemAt(seq, loc).writes + 1
                 /\ Cardinality(EventsOf(trace, p, loc, "lookup")) <= 1
                 /\ Cardinality(EventsOf(trace, p, loc, "call")) <= 1
                 /\ Cardinality(EventsOf(trace, p, loc, "assign")) <= 1
                 /\ Cardinality(Errors(log, p, loc)) <= 1
           /\ \A loc \in Locations(seq) \ C18_Visited(seq) :
                 /\ ItemAt(message_sequence, loc) = ItemAt(seq, loc)
                 /\ Errors(log, p, loc) = {}
                 /\ Events(trace, p, loc) = {}
           /\ \A k \in ErrorsIn(log, p) : log[k].loc \in C18_Visited(seq)
           /\ \A k \in 1..Len(trace) : trace[k].pass = p => trace[k].loc \in C18_Visited(seq)
           /\ C6_InOrder(trace, p)
           /\ C6_InOrder(log, p)
           /\ C18_Visited(seq) = {} =>
                 /\ root_config = entry.root_config
                 /\ actions = entry.actions
                 /\ ErrorsIn(log, p) = {}

\* a pass over a disabled message that holds the valid assignment n=1 and an
\* enabled message that holds a disabled n=5: nothing was assigned or reported
C18_WitnessInert ==
    /\ fresh
    /\ passes = 1
    /\ Len(message_sequence) = 2
    /\ ~message_sequence[1].is_enabled
    /\ message_sequence[1].content = <<Command(<<"n", "=", "1">>, TRUE)>>
    /\ message_sequence[2].is_enabled
    /\ message_sequence[2].content = <<Command(<<"n", "=", "5">>, FALSE)>>
    /\ root_config = DefaultConfiguration
    /\ log = <<>>
    /\ trace = <<>>

\* the second pass over a disabled message that holds the valid assignment n=1
\* and an enabled message that holds t=12: only t was assigned, in both passes
C18_Witness ==
    /\ fresh
    /\ passes = 2
    /\ Len(message_sequence) = 2
    /\ ~message_sequence[1].is_enabled
    /\ message_sequence[1].content = <<Command(<<"n", "=", "1">>, TRUE)>>
    /\ message_sequence[2].is_enabled
    /\ Len(message_sequence[2].content) = 1
    /\ ItemAt(message_sequence, <<2, 1>>).text = <<"t", "=", "1", "2">>
    /\ ItemAt(message_sequence, <<2, 1>>).writes = 2
    /\ ~root_config[FieldN].explicit
    /\ root_config[FieldT].explicit
    /\ Cardinality(EventsOf(trace, 2, <<2, 1>>, "assign")) = 1

----------------------------------------------------------------------------
(* C19: a pass over an empty message sequence returns normally, whatever   *)
(* is_final_sequence is: nothing is raised, no diagnostic is reported and  *)
(* the document, the configuration and the registry are as before.         *)
C19_EmptySequence ==
    (fresh /\ entry.message_sequence = <<>>) =>
        /\ raised = "none"
        /\ message_sequence = <<>>
        /\ root_config = entry.root_config
        /\ actions = entry.actions
        /\ ErrorsIn(log, passes) = {}
        /\ \A k \in 1..Len(trace) : trace[k].pass # passes

----------------------------------------------------------------------------
(* C20: the final message is the last message of the sequence, enabled or  *)
(* not. In a pass flagged final whose last message is disabled, no command *)
(* written with a leading "!" is looked up, invoked or assigned, wherever  *)
(* it stands, the last enabled message included, and a well-formed one     *)
(* reports nothing and holds an empty result; the commands without "!" of  *)
(* the enabled messages are executed as in any pass.                       *)
C20_LastDisabled(seq, is_final_sequence) ==
    /\ is_final_sequence
    /\ Len(seq) > 0
    /\ ~seq[Len(seq)].is_enabled

C20_DisabledFinalMessage ==
    (fresh /\ C20_LastDisabled(entry.message_sequence, flags[passes])) =>
        LET p == passes
            seq == entry.message_sequence
        IN \A loc \in Locations(seq) :
              LET text == ItemAt(seq, loc).text
                  cmd == Parsed(seq, loc)
              IN /\ (ItemAt(seq, loc).kind = "command" /\ Len(text) > 0
                                                       /\ text[1] = "!")
                    => /\ Events(trace, p, loc) = {}
                       /\ cmd.matched =>
                             /\ Errors(log, p, loc) = {}
                             /\ ItemAt(message_sequence, loc).result = NoneResult
                 /\ (Reached(seq, loc) /\ cmd.matched /\ ~cmd.has_exclamation)
                    => IF cmd.equals_sign
                       THEN IF C9_Blank(cmd.rest)
                            THEN Cardinality(ErrorsCoded(log, p, loc,
                                                         "skiping-empty-assignment")) = 1
                            ELSE Cardinality(EventsOf(trace, p, loc, "assign")) = 1
                       ELSE Cardinality(EventsOf(trace, p, loc, "lookup")) = 1

\* a pass flagged final over an enabled message that holds "!n = 2" and "n=1",
\* followed by a disabled message: n is 1 and "!n = 2" was not interpreted
C20_Witness ==
    /\ fresh
    /\ flags = <<TRUE>>
    /\ Len(message_sequence) = 2
    /\ message_sequence[1].is_enabled
    /\ ~message_sequence[2].is_enabled
    /\ Len(message_sequence[1].content) = 2
    /\ ItemAt(message_sequence, <<1, 1>>).text = <<"!", "n", " ", "=", " ", "2">>
    /\ ItemAt(message_sequence, <<1, 2>>).text = <<"n", "=", "1">>
    /\ Events(trace, 1, <<1, 1>>) = {}
    /\ root_config[FieldN] = [value |-> 1, explicit |-> TRUE]

====
